---- MODULE Spec2Model ----
(***************************************************************************)
(* A model of ml_features.py: the kinematic feature library, the noise     *)
(* filter, the per-movement assembler, the dataset driver and the interval *)
(* summary extractor.                                                      *)
(*                                                                         *)
(* Numbers.  Raw cells (coordinates, Time, prob) are integers: a           *)
(* coordinate is in pixels, Time in ticks, and a probability in tenths     *)
(* (0.6 is 6).  A computed cell is a record [k, v, d]: a finite number,    *)
(* NaN or +inf.  Square roots and quotients are rounded down to an         *)
(* integer;                                                                *)
(* the quantities the properties below speak of (lengths, column names,    *)
(* the filter mask, the slice membership, the regression slope) are kept   *)
(* exact: norm_time and the slope are fractions [n, d].                    *)
(*                                                                         *)
(* Exceptions.  An operator that can raise returns [exc, val]; exc is      *)
(* "none" or the name of the Python exception.                             *)
(***************************************************************************)
EXTENDS Integers, Sequences, FiniteSets, TLC

VARIABLES pc, coords, mov_data, feature_set, raw_data, data, partial_data, ret, exc,
          k_mov, k_compl

vars == <<pc, coords, mov_data, feature_set, raw_data, data, partial_data, ret, exc,
          k_mov, k_compl>>

\* ------------------------------------------------------------------ bounds
MaxLen == 3
MaxCoord == 3

\* ------------------------------------------------------------------ values
\* A computed cell: the number v/d (d = 1 but for a regression slope), NaN,
\* +inf, or the largest finite float that np.nan_to_num puts in place of +inf.
Num(i) == [k |-> "num", v |-> i, d |-> 1]
Frac(n, m) == [k |-> "frac", v |-> n, d |-> m]
NaN == [k |-> "nan", v |-> 0, d |-> 1]
Inf == [k |-> "inf", v |-> 0, d |-> 1]
FloatMax == [k |-> "max", v |-> 0, d |-> 1]

Ok(x) == [exc |-> "none", val |-> x]
Raise(e) == [exc |-> e, val |-> <<>>]

Abs(i) == IF i < 0 THEN -i ELSE i
Min2(a, b) == IF a <= b THEN a ELSE b

\* arr[lo:hi] of a 0-based Python array held as a 1-based sequence:
\* the elements with 0-based index lo .. hi-1, both already clipped to 0..len.
Slice(s, lo, hi) == IF hi <= lo THEN <<>> ELSE SubSeq(s, lo + 1, hi)

\* ---------------------------------------------------------- neighbour_dist
\* dist = |coords[1:] - coords[:-1]| has len-1 elements; dist[0] raises
\* IndexError when it is empty, that is when coords has fewer than 2 elements.
neighbour_dist(c) ==
    IF Len(c) < 2 THEN Raise("IndexError")
    ELSE LET dist == [i \in 1..(Len(c) - 1) |-> Abs(c[i + 1] - c[i])]
             prev_dist == <<dist[1]>> \o dist
             next_dist == dist \o <<dist[Len(dist)]>>
         IN Ok([i \in 1..Len(c) |-> Min2(prev_dist[i], next_dist[i])])

\* ---------------------------------------------------------- raw tables
\* A raw movement table is a function from column name to the column's cells
\* (all columns of one length); a missing column is absent from its domain.
WINDOW == 10
PROB_THRESHOLD == 6
DIST_THRESHOLD == 10

ColNames ==
    [RThumb4FingerTip  |-> [x |-> "RThumb4FingerTip.x", y |-> "RThumb4FingerTip.y",
                            prob |-> "RThumb4FingerTip.prob"],
     RIndex4FingerTip  |-> [x |-> "RIndex4FingerTip.x", y |-> "RIndex4FingerTip.y",
                            prob |-> "RIndex4FingerTip.prob"],
     RMiddle4FingerTip |-> [x |-> "RMiddle4FingerTip.x", y |-> "RMiddle4FingerTip.y",
                            prob |-> "RMiddle4FingerTip.prob"],
     RWrist            |-> [x |-> "RWrist.x", y |-> "RWrist.y", prob |-> "RWrist.prob"]]

\* f"{joint}.{field}"
Col(joint, field) == ColNames[joint][field]

\* mov_data.shape[0]
Rows(t) == IF DOMAIN t = {} THEN 0 ELSE Len(t[CHOOSE c \in DOMAIN t : TRUE])

\* mov_data[c].iloc[WINDOW:].to_numpy()
Window(t, c) == Slice(t[c], WINDOW, Len(t[c]))

\* mov_data[c].iloc[WINDOW-1:-1].to_numpy()
PrevWindow(t, c) == Slice(t[c], WINDOW - 1, Len(t[c]) - 1)

\* np.sqrt, rounded down
ISqrt(n) == CHOOSE r \in 0..n : r * r <= n /\ n < (r + 1) * (r + 1)

\* ------------------------------------------------------ euclidean_distance
euclidean_distance(t, joint1, joint2) ==
    IF ~({Col(joint1, "x"), Col(joint1, "y"), Col(joint2, "x"), Col(joint2, "y")}
            \subseteq DOMAIN t)
    THEN Raise("KeyError")
    ELSE LET x1 == Window(t, Col(joint1, "x"))
             y1 == Window(t, Col(joint1, "y"))
             x2 == Window(t, Col(joint2, "x"))
             y2 == Window(t, Col(joint2, "y"))
         IN Ok([i \in 1..Len(x1) |->
                  Num(ISqrt((x2[i] - x1[i]) * (x2[i] - x1[i])
                            + (y2[i] - y1[i]) * (y2[i] - y1[i])))])

\* --------------------------------------------------------- filter_aperture
\* filter_aperture with neighbour_dist taken over the full raw series of each
\* coordinate and read at the WINDOW offset.
filter_aperture_fullseries(aperture, t, joint1, joint2) ==
    IF ~({Col(joint1, "x"), Col(joint1, "y"), Col(joint1, "prob"),
          Col(joint2, "x"), Col(joint2, "y"), Col(joint2, "prob")} \subseteq DOMAIN t)
    THEN Raise("KeyError")
    ELSE LET prob1 == Window(t, Col(joint1, "prob"))
             prob2 == Window(t, Col(joint2, "prob"))
             nx1 == neighbour_dist(t[Col(joint1, "x")])
             nx2 == neighbour_dist(t[Col(joint2, "x")])
             ny1 == neighbour_dist(t[Col(joint1, "y")])
             ny2 == neighbour_dist(t[Col(joint2, "y")])
         IN IF \E r \in {nx1, nx2, ny1, ny2} : r.exc # "none"
            THEN Raise("IndexError")
            ELSE LET invalid_frames ==
                         [i \in 1..Len(prob1) |->
                            ~(/\ prob1[i] > PROB_THRESHOLD
                              /\ prob2[i] > PROB_THRESHOLD
                              /\ nx1.val[WINDOW + i] < DIST_THRESHOLD
                              /\ nx2.val[WINDOW + i] < DIST_THRESHOLD
                              /\ ny1.val[WINDOW + i] < DIST_THRESHOLD
                              /\ ny2.val[WINDOW + i] < DIST_THRESHOLD)]
                 IN Ok([i \in 1..Len(aperture) |->
                          IF invalid_frames[i] THEN NaN ELSE aperture[i]])

\* The array after the in-place write aperture[invalid_frames] = np.nan.
\* The four coordinate series handed to neighbour_dist are the analysis-window
\* slices .iloc[WINDOW:], as are the two prob series.
filter_aperture(aperture, t, joint1, joint2) ==
    IF ~({Col(joint1, "x"), Col(joint1, "y"), Col(joint1, "prob"),
          Col(joint2, "x"), Col(joint2, "y"), Col(joint2, "prob")} \subseteq DOMAIN t)
    THEN Raise("KeyError")
    ELSE LET prob1 == Window(t, Col(joint1, "prob"))
             prob2 == Window(t, Col(joint2, "prob"))
             nx1 == neighbour_dist(Window(t, Col(joint1, "x")))
             nx2 == neighbour_dist(Window(t, Col(joint2, "x")))
             ny1 == neighbour_dist(Window(t, Col(joint1, "y")))
             ny2 == neighbour_dist(Window(t, Col(joint2, "y")))
         IN IF \E r \in {nx1, nx2, ny1, ny2} : r.exc # "none"
            THEN Raise("IndexError")
            ELSE LET invalid_frames ==
                         [i \in 1..Len(prob1) |->
                            ~(/\ prob1[i] > PROB_THRESHOLD
                              /\ prob2[i] > PROB_THRESHOLD
                              /\ nx1.val[i] < DIST_THRESHOLD
                              /\ nx2.val[i] < DIST_THRESHOLD
                              /\ ny1.val[i] < DIST_THRESHOLD
                              /\ ny2.val[i] < DIST_THRESHOLD)]
                 IN Ok([i \in 1..Len(aperture) |->
                          IF invalid_frames[i] THEN NaN ELSE aperture[i]])

\* ------------------------------------------------------- calculate_aperture
calculate_aperture(t, joint1, joint2) ==
    LET aperture == euclidean_distance(t, joint1, joint2)
    IN IF aperture.exc # "none" THEN aperture
       ELSE filter_aperture(aperture.val, t, joint1, joint2)

\* ---------------------------------------------------- calculate_wrist_stddev
RECURSIVE SumSeq(_)
SumSeq(s) == IF s = <<>> THEN 0 ELSE Head(s) + SumSeq(Tail(s))

Squares(s) == [i \in 1..Len(s) |-> s[i] * s[i]]

\* Len(w) * Len(w) times the population variance of w: exact in integers.
ScaledVar(w) == Len(w) * SumSeq(Squares(w)) - SumSeq(w) * SumSeq(w)

\* for f in range(WINDOW, coords.shape[0]): the population standard deviation
\* of coords[f-WINDOW:f]; f is 0-based, entry i of the result is f = WINDOW+i-1.
calculate_wrist_stddev(t, axis) ==
    IF Col("RWrist", axis) \notin DOMAIN t THEN Raise("KeyError")
    ELSE LET coords_ == t[Col("RWrist", axis)]
             n == IF Len(coords_) > WINDOW THEN Len(coords_) - WINDOW ELSE 0
         IN Ok([i \in 1..n |->
                  LET w == Slice(coords_, i - 1, WINDOW + i - 1)
                  IN Num(ISqrt(ScaledVar(w) \div (WINDOW * WINDOW)))])

\* --------------------------------------------------- calculate_wrist_stddist
calculate_wrist_stddist(t) ==
    IF ~({"RWrist.x", "RWrist.y"} \subseteq DOMAIN t) THEN Raise("KeyError")
    ELSE LET x_coords == t["RWrist.x"]
             y_coords == t["RWrist.y"]
             n == IF Rows(t) > WINDOW THEN Rows(t) - WINDOW ELSE 0
         IN Ok([i \in 1..n |->
                  LET wx == Slice(x_coords, i - 1, WINDOW + i - 1)
                      wy == Slice(y_coords, i - 1, WINDOW + i - 1)
                  IN Num(ISqrt((ScaledVar(wx) + ScaledVar(wy)) \div (WINDOW * WINDOW)))])

\* ------------------------------------------------ calculate_wrist_axis_speed
\* dx/dt in floating point: 0/0 is NaN, a positive dx over 0 is +inf.
Quotient(dx, dt) ==
    IF dt = 0 THEN (IF dx = 0 THEN NaN ELSE Inf) ELSE Num(dx \div dt)

calculate_wrist_axis_speed(t, axis) ==
    IF Col("RWrist", axis) \notin DOMAIN t \/ "Time" \notin DOMAIN t THEN Raise("KeyError")
    ELSE LET curr_coords == Window(t, Col("RWrist", axis))
             prev_coords == PrevWindow(t, Col("RWrist", axis))
             curr_time == Window(t, "Time")
             prev_time == PrevWindow(t, "Time")
         IN Ok([i \in 1..Len(curr_coords) |->
                  Quotient(Abs(curr_coords[i] - prev_coords[i]),
                           curr_time[i] - prev_time[i])])

\* ----------------------------------------------- calculate_wrist_plane_speed
calculate_wrist_plane_speed(t) ==
    IF ~({"RWrist.x", "RWrist.y", "Time"} \subseteq DOMAIN t) THEN Raise("KeyError")
    ELSE LET curr_x == Window(t, "RWrist.x")
             prev_x == PrevWindow(t, "RWrist.x")
             curr_y == Window(t, "RWrist.y")
             prev_y == PrevWindow(t, "RWrist.y")
             curr_time == Window(t, "Time")
             prev_time == PrevWindow(t, "Time")
         IN Ok([i \in 1..Len(curr_x) |->
                  Quotient(ISqrt((curr_x[i] - prev_x[i]) * (curr_x[i] - prev_x[i])
                                 + (curr_y[i] - prev_y[i]) * (curr_y[i] - prev_y[i])),
                           curr_time[i] - prev_time[i])])

\* -------------------------------------------------------- calculate_norm_time
\* 100.0 * (abs_time - abs_time[0]) / (abs_time[-1] - abs_time[0]), each cell
\* kept as the fraction n/d; abs_time[0] raises IndexError on an empty window.
calculate_norm_time(t) ==
    IF "Time" \notin DOMAIN t THEN Raise("KeyError")
    ELSE LET abs_time == Window(t, "Time")
         IN IF Len(abs_time) = 0 THEN Raise("IndexError")
            ELSE Ok([i \in 1..Len(abs_time) |->
                       [n |-> 100 * (abs_time[i] - abs_time[1]),
                        d |-> abs_time[Len(abs_time)] - abs_time[1]]])

\* ---------------------------------------------------- mov_feature_engineering
\* The feature identifiers the function tests for, in the order of its lines.
Vocabulary ==
    <<"thumb-index aperture", "thumb-middle aperture", "index-middle aperture",
      "wrist x-coord", "wrist y-coord", "wrist x-std_dev", "wrist y-std_dev",
      "wrist xy-std_dist", "wrist x-speed", "wrist y-speed", "wrist xy-speed">>

VocabularySet == {Vocabulary[i] : i \in 1..Len(Vocabulary)}

\* The key under which the line of identifier `ident` stores its column.
DictKey(ident) ==
    CASE ident = "wrist y-speed" -> "wrist-y speed"
      [] ident = "wrist xy-speed" -> "wrist-xy speed"
      [] OTHER -> ident

\* A raw column sliced to the analysis window, as computed cells.
RawWindow(t, c) ==
    IF c \notin DOMAIN t THEN Raise("KeyError")
    ELSE Ok([i \in 1..Len(Window(t, c)) |-> Num(Window(t, c)[i])])

\* The right-hand side of the line of identifier `ident`.
FeatureColumn(t, ident) ==
    CASE ident = "thumb-index aperture" ->
            calculate_aperture(t, "RThumb4FingerTip", "RIndex4FingerTip")
      [] ident = "thumb-middle aperture" ->
            calculate_aperture(t, "RThumb4FingerTip", "RMiddle4FingerTip")
      [] ident = "index-middle aperture" ->
            calculate_aperture(t, "RIndex4FingerTip", "RMiddle4FingerTip")
      [] ident = "wrist x-coord" -> RawWindow(t, "RWrist.x")
      [] ident = "wrist y-coord" -> RawWindow(t, "RWrist.y")
      [] ident = "wrist x-std_dev" -> calculate_wrist_stddev(t, "x")
      [] ident = "wrist y-std_dev" -> calculate_wrist_stddev(t, "y")
      [] ident = "wrist xy-std_dist" -> calculate_wrist_stddist(t)
      [] ident = "wrist x-speed" -> calculate_wrist_axis_speed(t, "x")
      [] ident = "wrist y-speed" -> calculate_wrist_axis_speed(t, "y")
      [] ident = "wrist xy-speed" -> calculate_wrist_plane_speed(t)

\* pd.DataFrame(feature_dict): abs_time is a Series and fixes the index; a
\* column of another length raises ValueError.
DataFrame(feature_dict) ==
    IF \E c \in DOMAIN feature_dict : Len(feature_dict[c]) # Len(feature_dict["abs_time"])
    THEN Raise("ValueError")
    ELSE Ok(feature_dict)

mov_feature_engineering(t, fs) ==
    LET abs_time == RawWindow(t, "Time")
        norm_time == calculate_norm_time(t)
        requested == SelectSeq(Vocabulary, LAMBDA ident : ident \in fs)
        column == [i \in 1..Len(requested) |-> FeatureColumn(t, requested[i])]
        failed == {i \in 1..Len(requested) : column[i].exc # "none"}
    IN IF abs_time.exc # "none" THEN abs_time
       ELSE IF norm_time.exc # "none" THEN norm_time
       ELSE IF failed # {}
       THEN Raise(column[CHOOSE i \in failed : \A j \in failed : i <= j].exc)
       ELSE DataFrame(
              [c \in {"abs_time", "norm_time"}
                       \cup {DictKey(requested[i]) : i \in 1..Len(requested)} |->
                 CASE c = "abs_time" -> abs_time.val
                   [] c = "norm_time" -> norm_time.val
                   [] OTHER ->
                        column[CHOOSE i \in 1..Len(requested) : DictKey(requested[i]) = c].val])

\* ------------------------------------------------------ feature_engineering
\* One iteration of `for mov_name, mov_data in data.items()`: the collection
\* with the movement's table replaced, or the exception that ends the call.
feature_engineering_iteration(d, mov_name, fs) ==
    LET r == mov_feature_engineering(d[mov_name], fs)
    IN IF r.exc # "none" THEN r ELSE Ok([d EXCEPT ![mov_name] = r.val])

\* ------------------------------------------- feature_statistics_extraction
Checkpoints == <<20, 40, 60, 80, 100>>

\* norm_time <= mov_compl on one cell n/d in floating point: a comparison with
\* NaN (0/0) is False, +inf (n > 0 over 0) is above every checkpoint.
NormTimeLeq(cell, mov_compl) ==
    IF cell.d = 0 THEN cell.n < 0
    ELSE IF cell.d > 0 THEN cell.n <= mov_compl * cell.d
    ELSE cell.n >= mov_compl * cell.d

\* The rows (1-based, ascending) of mov_data[mov_data["norm_time"] <= mov_compl].
PartialRows(ft, mov_compl) ==
    SelectSeq([i \in 1..Len(ft["norm_time"]) |-> i],
              LAMBDA i : NormTimeLeq(ft["norm_time"][i], mov_compl))

\* Column names in lexicographic order, as Index.difference returns them.
Alphabetical ==
    <<"index-middle aperture", "thumb-index aperture", "thumb-middle aperture",
      "wrist x-coord", "wrist x-speed", "wrist x-std_dev", "wrist xy-speed",
      "wrist xy-std_dist", "wrist y-coord", "wrist y-speed", "wrist y-std_dev",
      "wrist-xy speed", "wrist-y speed">>

\* partial_mov_data.columns.difference(['abs_time', 'norm_time'])
NonTimeColumns(ft) ==
    SelectSeq(Alphabetical, LAMBDA c : c \in DOMAIN ft \ {"abs_time", "norm_time"})

\* The cells of column c in the rows of the slice.
Cells(ft, c, rows) == [j \in 1..Len(rows) |-> ft[c][rows[j]]]

IsValid(cell) == cell.k # "nan"
ValidPos(vals) == {j \in 1..Len(vals) : IsValid(vals[j])}
ValidValues(vals) == SelectSeq(vals, IsValid)
Numbers(vals) == [j \in 1..Len(vals) |-> vals[j].v]
HasInf(vals) == \E j \in 1..Len(vals) : vals[j].k = "inf"

\* a <= b on cells that are not NaN
CellLeq(a, b) == b.k = "inf" \/ (a.k = "num" /\ b.k = "num" /\ a.v <= b.v)

\* DataFrame.max / min (skipna=True) on one column
features_max(vals) ==
    IF ValidPos(vals) = {} THEN NaN
    ELSE vals[CHOOSE j \in ValidPos(vals) : \A i \in ValidPos(vals) : CellLeq(vals[i], vals[j])]

features_min(vals) ==
    IF ValidPos(vals) = {} THEN NaN
    ELSE vals[CHOOSE j \in ValidPos(vals) : \A i \in ValidPos(vals) : CellLeq(vals[j], vals[i])]

\* DataFrame.mean (skipna=True) on one column
features_mean(vals) ==
    LET w == ValidValues(vals)
    IN IF w = <<>> THEN NaN
       ELSE IF HasInf(w) THEN Inf
       ELSE Num(SumSeq(Numbers(w)) \div Len(w))

\* DataFrame.std (ddof=0, skipna=True) on one column
features_std(vals) ==
    LET w == ValidValues(vals)
    IN IF w = <<>> \/ HasInf(w) THEN NaN
       ELSE Num(ISqrt(ScaledVar(Numbers(w)) \div (Len(w) * Len(w))))

\* set_index(abs_time).idxmax / idxmin (skipna=True) on one column with at
\* least one row: the abs_time of the first row holding the extreme value,
\* NaN when every cell is NaN.
features_tmax(vals, abs_time) ==
    IF ValidPos(vals) = {} THEN NaN
    ELSE LET at == {j \in ValidPos(vals) : \A i \in ValidPos(vals) : CellLeq(vals[i], vals[j])}
         IN abs_time[CHOOSE j \in at : \A i \in at : j <= i]

features_tmin(vals, abs_time) ==
    IF ValidPos(vals) = {} THEN NaN
    ELSE LET at == {j \in ValidPos(vals) : \A i \in ValidPos(vals) : CellLeq(vals[j], vals[i])}
         IN abs_time[CHOOSE j \in at : \A i \in at : j <= i]

\* What the installed libraries do where their versions differ:
\*   all_na_raises   idxmax/idxmin of an all-NaN column raises ValueError
\*                   (pandas 3) or returns NaN (earlier)
\*   const_x_raises  linregress on identical x values raises ValueError
\*                   (current scipy) or returns NaN (earlier)
LibBehaviours == [all_na_raises : BOOLEAN, const_x_raises : BOOLEAN]

Products(a, b) == [j \in 1..Len(a) |-> a[j] * b[j]]

\* scipy.stats.linregress(t, f)[0] on the masked pairs: the slope
\* cov(t, f) / var(t), as the fraction Sxy / Sxx.
linregress(t, f, lib) ==
    IF \A j \in 1..Len(t) : t[j] = t[1]
    THEN (IF lib.const_x_raises THEN Raise("ValueError") ELSE Ok(NaN))
    ELSE IF HasInf(f) THEN Ok(NaN)
    ELSE LET x == Numbers(t)
             y == Numbers(f)
         IN Ok(Frac(Len(x) * SumSeq(Products(x, y)) - SumSeq(x) * SumSeq(y),
                    Len(x) * SumSeq(Squares(x)) - SumSeq(x) * SumSeq(x)))

\* slope_of with the mask left off abs_time: the values are paired with the
\* times of the first rows of the slice.
slope_of_unmasked_time(vals, abs_time, lib) ==
    LET feature_mask == [j \in 1..Len(vals) |-> IsValid(vals[j])]
        picked == SelectSeq([j \in 1..Len(vals) |-> j], LAMBDA j : feature_mask[j])
    IN IF Len(picked) > 1
       THEN linregress([j \in 1..Len(picked) |-> abs_time[j]],
                       [j \in 1..Len(picked) |-> vals[picked[j]]], lib)
       ELSE Ok(Num(0))

\* The body of `for feature in non_time_data.columns`: feature_mask is
\* value == value, False exactly on NaN.
slope_of(vals, abs_time, lib) ==
    LET feature_mask == [j \in 1..Len(vals) |-> IsValid(vals[j])]
        picked == SelectSeq([j \in 1..Len(vals) |-> j], LAMBDA j : feature_mask[j])
    IN IF Len(picked) > 1
       THEN linregress([j \in 1..Len(picked) |-> abs_time[picked[j]]],
                       [j \in 1..Len(picked) |-> vals[picked[j]]], lib)
       ELSE Ok(Num(0))

\* np.nan_to_num on one entry
nan_to_num(cell) ==
    CASE cell.k = "nan" -> Num(0)
      [] cell.k = "inf" -> FloatMax
      [] OTHER -> cell

RECURSIVE Concat(_)
Concat(ss) == IF ss = <<>> THEN <<>> ELSE Head(ss) \o Concat(Tail(ss))

\* features_stats with the max and min blocks in the other order.
features_stats_minmax(points_no, means, stds, maxs, mins, tmaxs, tmins, slopes) ==
    Concat(<<(<<Num(points_no)>>), means, stds, mins, maxs, tmaxs, tmins, slopes>>)

\* features_stats without points_no.
features_stats_nocount(points_no, means, stds, maxs, mins, tmaxs, tmins, slopes) ==
    Concat(<<means, stds, maxs, mins, tmaxs, tmins, slopes>>)

\* np.r_[points_no, features_mean, features_std, features_max, features_min,
\*       features_tmax, features_tmin, slopes]
features_stats(points_no, means, stds, maxs, mins, tmaxs, tmins, slopes) ==
    Concat(<<(<<Num(points_no)>>), means, stds, maxs, mins, tmaxs, tmins, slopes>>)

\* One iteration of the two loops: the vector stored under
\* "{mov_name}_{mov_compl}", or the exception that ends the call.  idxmax on a
\* slice of 0 rows with at least one feature column raises ValueError
\* (argmax of an empty sequence).
summary_vector(ft, mov_compl, lib) ==
    LET rows == PartialRows(ft, mov_compl)
        points_no == Len(rows)
        columns == NonTimeColumns(ft)
        abs_time == Cells(ft, "abs_time", rows)
        vals(c) == Cells(ft, c, rows)
        per(Op(_)) == [i \in 1..Len(columns) |-> Op(vals(columns[i]))]
        tmaxs == [i \in 1..Len(columns) |-> features_tmax(vals(columns[i]), abs_time)]
        tmins == [i \in 1..Len(columns) |-> features_tmin(vals(columns[i]), abs_time)]
        slopes == [i \in 1..Len(columns) |-> slope_of(vals(columns[i]), abs_time, lib)]
        stats == features_stats(points_no, per(features_mean), per(features_std),
                                per(features_max), per(features_min), tmaxs, tmins,
                                [i \in 1..Len(columns) |-> slopes[i].val])
    IN IF Len(columns) > 0 /\ points_no = 0 THEN Raise("ValueError")
       ELSE IF lib.all_na_raises
               /\ \E i \in 1..Len(columns) : ValidPos(vals(columns[i])) = {}
       THEN Raise("ValueError")
       ELSE IF \E i \in 1..Len(columns) : slopes[i].exc # "none" THEN Raise("ValueError")
       ELSE Ok([j \in 1..Len(stats) |-> nan_to_num(stats[j])])

\* ------------------------------------------------ specification: SpecND
CoordArrays == UNION {[1..n -> 0..MaxCoord] : n \in 1..MaxLen}

Idle ==
    /\ mov_data = <<>> /\ feature_set = {} /\ raw_data = <<>> /\ data = <<>>
    /\ partial_data = <<>> /\ k_mov = 0 /\ k_compl = 0

InitND ==
    /\ pc = "call"
    /\ coords \in CoordArrays
    /\ ret = <<>> /\ exc = "none"
    /\ Idle

NeighbourDistCall ==
    /\ pc = "call"
    /\ LET r == neighbour_dist(coords)
       IN /\ ret' = r.val
          /\ exc' = r.exc
          /\ pc' = IF r.exc = "none" THEN "returned" ELSE "raised"
    /\ UNCHANGED <<coords, mov_data, feature_set, raw_data, data, partial_data, k_mov, k_compl>>

NextND == NeighbourDistCall

SpecND == InitND /\ [][NextND]_vars

\* C10: for every input array of length n >= 1, neighbour_dist returns an array
\* of length n whose element i is min(|v[i]-v[i-1]|, |v[i]-v[i+1]|), the first
\* and last element compared to their single neighbour only; it returns [0] on a
\* 1-element array and [3, 2, 2] on [0, 3, 1].
NeighbourOf(c, i) ==
    {Abs(c[i] - c[j]) : j \in {i - 1, i + 1} \cap (1..Len(c))}

C10_NeighbourDistTotal ==
    pc # "call" =>
        /\ pc = "returned"
        /\ Len(ret) = Len(coords)
        /\ \A i \in 1..Len(coords) :
              IF Len(coords) = 1 THEN ret[i] = 0
              ELSE /\ ret[i] \in NeighbourOf(coords, i)
                   /\ \A d \in NeighbourOf(coords, i) : ret[i] <= d
        /\ (coords = <<0, 3, 1>> => ret = <<3, 2, 2>>)

\* ------------------------------------------- specification: SpecAperture
MaxApFrames == 3

\* One captured frame; Time is filled in by MkTable.
BaseFrame ==
    [wx |-> 0, wy |-> 0, tx |-> 0, ty |-> 0, tp |-> 7,
     ix |-> 3, iy |-> 4, ip |-> 7, mx |-> 0, my |-> 5, mp |-> 7]

\* The table whose row i (0-based) is frames[i+1] at Time times[i+1].
MkTable(frames, times) ==
    LET col(f) == [i \in 1..Len(frames) |-> frames[i][f]]
    IN [c \in {"Time", "RWrist.x", "RWrist.y",
                "RThumb4FingerTip.x", "RThumb4FingerTip.y", "RThumb4FingerTip.prob",
                "RIndex4FingerTip.x", "RIndex4FingerTip.y", "RIndex4FingerTip.prob",
                "RMiddle4FingerTip.x", "RMiddle4FingerTip.y", "RMiddle4FingerTip.prob"} |->
          CASE c = "Time" -> times
            [] c = "RWrist.x" -> col("wx")
            [] c = "RWrist.y" -> col("wy")
            [] c = "RThumb4FingerTip.x" -> col("tx")
            [] c = "RThumb4FingerTip.y" -> col("ty")
            [] c = "RThumb4FingerTip.prob" -> col("tp")
            [] c = "RIndex4FingerTip.x" -> col("ix")
            [] c = "RIndex4FingerTip.y" -> col("iy")
            [] c = "RIndex4FingerTip.prob" -> col("ip")
            [] c = "RMiddle4FingerTip.x" -> col("mx")
            [] c = "RMiddle4FingerTip.y" -> col("my")
            [] c = "RMiddle4FingerTip.prob" -> col("mp")]

\* Frames that differ from BaseFrame in one cell: a coordinate 9 or 10 pixels
\* away, a probability at or below the threshold.
ApFrameKinds ==
    {BaseFrame,
     [BaseFrame EXCEPT !.tx = 10],
     [BaseFrame EXCEPT !.tx = 9],
     [BaseFrame EXCEPT !.tp = 5],
     [BaseFrame EXCEPT !.iy = 14],
     [BaseFrame EXCEPT !.ip = 6]}

LeadIn(n) == [i \in 1..n |-> BaseFrame]
Ticks(n) == [i \in 1..n |-> i - 1]

\* WINDOW-1 fixed lead-in rows, then lead-in row 9 and 0..MaxApFrames
\* analysis-window rows drawn from ApFrameKinds.
ApertureTables ==
    {MkTable(LeadIn(WINDOW - 1) \o tail, Ticks(WINDOW - 1 + Len(tail))) :
        tail \in UNION {[1..n -> ApFrameKinds] : n \in 1..(MaxApFrames + 1)}}

JointPairs ==
    {<<"RThumb4FingerTip", "RIndex4FingerTip">>,
     <<"RThumb4FingerTip", "RMiddle4FingerTip">>,
     <<"RIndex4FingerTip", "RMiddle4FingerTip">>}

InitAperture ==
    /\ pc = "call"
    /\ mov_data \in ApertureTables
    /\ coords = <<>> /\ ret = <<>> /\ exc = "none"
    /\ feature_set = {} /\ raw_data = <<>> /\ data = <<>> /\ partial_data = <<>>
    /\ k_mov = 0 /\ k_compl = 0

CalculateApertureCall ==
    /\ pc = "call"
    /\ \E jp \in JointPairs :
          LET r == calculate_aperture(mov_data, jp[1], jp[2])
          IN /\ ret' = [joint1 |-> jp[1], joint2 |-> jp[2], aperture |-> r.val]
             /\ exc' = r.exc
             /\ pc' = IF r.exc = "none" THEN "returned" ELSE "raised"
    /\ UNCHANGED <<coords, mov_data, feature_set, raw_data, data, partial_data, k_mov, k_compl>>

NextAperture == CalculateApertureCall

SpecAperture == InitAperture /\ [][NextAperture]_vars

\* The least distance from element i (1-based) of series s to a neighbour it has.
NearestNeighbour(s, i) ==
    LET ds == {Abs(s[i] - s[j]) : j \in {i - 1, i + 1} \cap (1..Len(s))}
    IN CHOOSE d \in ds : \A e \in ds : d <= e

\* The frame (1-based in the analysis window) passes the filter, with the
\* neighbour-distance taken in `series(column)` at position off + i.
PassesFilter(t, j1, j2, i, off) ==
    LET ser(c) == IF off = 0 THEN Window(t, c) ELSE t[c]
    IN /\ Window(t, Col(j1, "prob"))[i] > PROB_THRESHOLD
       /\ Window(t, Col(j2, "prob"))[i] > PROB_THRESHOLD
       /\ \A c \in {Col(j1, "x"), Col(j1, "y"), Col(j2, "x"), Col(j2, "y")} :
             NearestNeighbour(ser(c), off + i) < DIST_THRESHOLD

KeptValue(t, j1, j2, i) == euclidean_distance(t, j1, j2).val[i]

\* C9 as stated: a frame of the analysis window is overwritten with NaN unless
\* both probabilities exceed 0.6 and the neighbour-distance of each of the four
\* coordinates, computed over the full raw series (lead-in included) and read at
\* the 10-frame offset, is below 10; the other frames keep their value.
C9_FilterOverFullSeries ==
    pc = "returned" =>
        \A i \in 1..Len(ret.aperture) :
            IF PassesFilter(mov_data, ret.joint1, ret.joint2, i, WINDOW)
            THEN ret.aperture[i] = KeptValue(mov_data, ret.joint1, ret.joint2, i)
            ELSE ret.aperture[i] = NaN

\* C9 amended: the neighbour-distance is computed over the analysis-window
\* slice of each coordinate (rows 10 onward), so the first analysis-window
\* frame is compared to its next neighbour only; a frame is NaN unless both
\* probabilities exceed 0.6 and the four distances are below 10, a frame with
\* prob1 = 0.5 is NaN, and the call raises IndexError exactly when the analysis
\* window has fewer than 2 rows.
C9_FilterOverWindow ==
    /\ pc = "returned" =>
          /\ Len(ret.aperture) = Rows(mov_data) - WINDOW
          /\ \A i \in 1..Len(ret.aperture) :
                /\ IF PassesFilter(mov_data, ret.joint1, ret.joint2, i, 0)
                   THEN ret.aperture[i] = KeptValue(mov_data, ret.joint1, ret.joint2, i)
                   ELSE ret.aperture[i] = NaN
                /\ Window(mov_data, Col(ret.joint1, "prob"))[i] = 5
                      => ret.aperture[i] = NaN
    /\ pc = "raised" => exc = "IndexError" /\ Rows(mov_data) - WINDOW < 2
    /\ pc = "returned" => Rows(mov_data) - WINDOW >= 2

\* C9 witness: a returned aperture whose first analysis-window frame is NaN
\* only because of its next neighbour (lead-in row 9 is at distance 0 from it),
\* with a later frame kept and a frame with prob1 = 0.5 masked.
C9_Witness ==
    /\ pc = "returned"
    /\ ret.joint1 = "RThumb4FingerTip"
    /\ Len(ret.aperture) = 3
    /\ mov_data["RThumb4FingerTip.x"][WINDOW] = mov_data["RThumb4FingerTip.x"][WINDOW + 1]
    /\ Window(mov_data, "RThumb4FingerTip.prob")[1] = 7
    /\ Window(mov_data, "RIndex4FingerTip.prob")[1] = 7
    /\ PassesFilter(mov_data, ret.joint1, ret.joint2, 1, WINDOW)
    /\ ret.aperture[1] = NaN
    /\ ret.aperture[3] # NaN
    /\ \E i \in 1..3 : Window(mov_data, "RThumb4FingerTip.prob")[i] = 5

\* --------------------------------------------------- specification: Spec
\* feature_engineering(data, feature_set) followed by
\* feature_statistics_extraction(data), one loop iteration per step.
MaxFrames == 3

MovNames == <<"a", "b">>

\* What one analysis-window frame adds to the frame before it.
FrameKinds ==
    {[dt |-> 1, wx |-> 2, tp |-> 7, tx |-> 0],
     [dt |-> 0, wx |-> 4, tp |-> 7, tx |-> 3],
     [dt |-> 2, wx |-> 0, tp |-> 5, tx |-> 0]}

\* Lead-in row i (1-based): the wrist moves, the fingers rest.
LeadInFrame(i) == [BaseFrame EXCEPT !.wx = 2 * (i % 2), !.wy = i]

RECURSIVE TimesAfter(_, _)
TimesAfter(t0, kinds) ==
    IF kinds = <<>> THEN <<>>
    ELSE <<t0 + Head(kinds).dt>> \o TimesAfter(t0 + Head(kinds).dt, Tail(kinds))

\* WINDOW lead-in rows at Time 0..9, then one row per element of kinds.
PipelineTable(kinds) ==
    MkTable([i \in 1..WINDOW |-> LeadInFrame(i)]
              \o [j \in 1..Len(kinds) |->
                    [BaseFrame EXCEPT !.wx = kinds[j].wx, !.wy = kinds[j].wx + j,
                                      !.tp = kinds[j].tp, !.tx = kinds[j].tx]],
            Ticks(WINDOW) \o TimesAfter(WINDOW - 1, kinds))

Without(t, c) == [x \in DOMAIN t \ {c} |-> t[x]]

RegularTable ==
    PipelineTable(<<[dt |-> 1, wx |-> 2, tp |-> 7, tx |-> 0],
                    [dt |-> 1, wx |-> 5, tp |-> 5, tx |-> 0],
                    [dt |-> 2, wx |-> 0, tp |-> 7, tx |-> 0]>>)

\* Tables of 10 .. 10+MaxFrames rows, and tables with a column missing.
PipelineTables ==
    {PipelineTable(kinds) : kinds \in UNION {[1..n -> FrameKinds] : n \in 0..MaxFrames}}
    \cup {Without(RegularTable, c) : c \in {"Time", "RWrist.x", "RThumb4FingerTip.prob"}}

FeatureSets ==
    {{}} \cup {{ident} : ident \in VocabularySet}
    \cup {{"no such feature"},
          {"thumb-index aperture", "wrist x-speed"},
          {"wrist x-coord", "wrist y-speed", "no such feature"},
          {"index-middle aperture", "wrist y-coord", "wrist x-std_dev", "wrist xy-speed",
           "wrist y-speed"}}

Init ==
    /\ pc = "feature_engineering"
    /\ feature_set \in FeatureSets
    /\ \E ta \in PipelineTables :
          raw_data = [m \in {"a", "b"} |-> IF m = "a" THEN ta ELSE RegularTable]
    /\ data = raw_data
    /\ partial_data = <<>>
    /\ k_mov = 1 /\ k_compl = 1
    /\ exc = "none"
    /\ coords = <<>> /\ mov_data = <<>> /\ ret = <<>>

FeatureEngineeringStep ==
    /\ pc = "feature_engineering"
    /\ LET r == feature_engineering_iteration(data, MovNames[k_mov], feature_set)
       IN IF r.exc # "none"
          THEN /\ exc' = r.exc
               /\ pc' = "feature_engineering raised"
               /\ UNCHANGED <<data, k_mov>>
          ELSE /\ data' = r.val
               /\ exc' = exc
               /\ IF k_mov < Len(MovNames)
                  THEN k_mov' = k_mov + 1 /\ pc' = pc
                  ELSE k_mov' = 1 /\ pc' = "feature_statistics_extraction"
    /\ UNCHANGED <<coords, mov_data, feature_set, raw_data, partial_data, ret, k_compl>>

\* partial_data[f"{mov_name}_{mov_compl}"] = features_stats
Store(pd, key, vec) ==
    [x \in DOMAIN pd \cup {key} |-> IF x = key THEN vec ELSE pd[x]]

StatisticsStep ==
    /\ pc = "feature_statistics_extraction"
    /\ \E lib \in LibBehaviours :
          LET mov_name == MovNames[k_mov]
              mov_compl == Checkpoints[k_compl]
              r == summary_vector(data[mov_name], mov_compl, lib)
          IN IF r.exc # "none"
             THEN /\ exc' = r.exc
                  /\ pc' = "feature_statistics_extraction raised"
                  /\ UNCHANGED <<partial_data, k_mov, k_compl>>
             ELSE /\ partial_data' = Store(partial_data, <<mov_name, mov_compl>>, r.val)
                  /\ exc' = exc
                  /\ IF k_mov < Len(MovNames)
                     THEN k_mov' = k_mov + 1 /\ k_compl' = k_compl /\ pc' = pc
                     ELSE IF k_compl < Len(Checkpoints)
                     THEN k_mov' = 1 /\ k_compl' = k_compl + 1 /\ pc' = pc
                     ELSE k_mov' = k_mov /\ k_compl' = k_compl /\ pc' = "returned"
    /\ UNCHANGED <<coords, mov_data, feature_set, raw_data, data, ret>>

Next == FeatureEngineeringStep \/ StatisticsStep

Spec == Init /\ [][Next]_vars

\* ------------------------------------------------------------ properties
AllColumns ==
    {"Time", "RWrist.x", "RWrist.y",
     "RThumb4FingerTip.x", "RThumb4FingerTip.y", "RThumb4FingerTip.prob",
     "RIndex4FingerTip.x", "RIndex4FingerTip.y", "RIndex4FingerTip.prob",
     "RMiddle4FingerTip.x", "RMiddle4FingerTip.y", "RMiddle4FingerTip.prob"}

MovSet == {MovNames[i] : i \in 1..Len(MovNames)}
IndexOf(m) == CHOOSE i \in 1..Len(MovNames) : MovNames[i] = m

\* feature_engineering has replaced the table of movement m.
Engineered(m) == "abs_time" \in DOMAIN data[m]

\* feature_engineering has reached movement m: replaced its table or raised on it.
Reached(m) ==
    \/ Engineered(m)
    \/ pc = "feature_engineering raised" /\ k_mov = IndexOf(m)

Terminated ==
    pc \in {"returned", "feature_engineering raised", "feature_statistics_extraction raised"}

FeatureColumns(m) == DOMAIN data[m] \ {"abs_time", "norm_time"}
NumFeatures(m) == Cardinality(FeatureColumns(m))

\* C1 as stated: for a raw table with at least 11 rows (and all its columns)
\* and any feature set, mov_feature_engineering returns a table of rows - 10
\* rows, every column of that length.
C1_RowCountMinusWindow ==
    \A m \in MovSet :
        (Reached(m) /\ DOMAIN raw_data[m] = AllColumns /\ Rows(raw_data[m]) >= WINDOW + 1)
        => /\ Engineered(m)
           /\ \A c \in DOMAIN data[m] : Len(data[m][c]) = Rows(raw_data[m]) - WINDOW

\* C2 as stated: the columns of the returned table are abs_time, norm_time and
\* one column per identifier of the feature set that is in the vocabulary,
\* named by that identifier.
C2_ColumnsAreIdentifiers ==
    \A m \in MovSet :
        Engineered(m)
        => DOMAIN data[m] = {"abs_time", "norm_time"} \cup (feature_set \cap VocabularySet)

\* C3: every vector stored under (movement, checkpoint) has length 1 + 7*F,
\* F the number of columns of the movement's feature table other than abs_time
\* and norm_time, whatever the checkpoint and however many cells are NaN.
C3_VectorLength ==
    \A key \in DOMAIN partial_data :
        Len(partial_data[key]) = 1 + 7 * NumFeatures(key[1])

NaNCells(m, c) == {i \in 1..Len(data[m][c]) : data[m][c][i] = NaN}

\* C3 witness: two vectors of one movement stored for checkpoints whose
\* slices differ in size, the movement having two feature columns, one of
\* them with a NaN cell.
C3_Witness ==
    \E m \in MovSet :
        /\ <<m, 20>> \in DOMAIN partial_data
        /\ <<m, 100>> \in DOMAIN partial_data
        /\ partial_data[<<m, 20>>][1] # partial_data[<<m, 100>>][1]
        /\ NumFeatures(m) = 2
        /\ \E c \in FeatureColumns(m) : NaNCells(m, c) # {}

\* The position of column c among the feature columns of m in alphabetical
\* order of name.
Precedes(c1, c2) ==
    \E i, j \in 1..Len(Alphabetical) :
        i < j /\ Alphabetical[i] = c1 /\ Alphabetical[j] = c2
Rank(m, c) == 1 + Cardinality({c2 \in FeatureColumns(m) : Precedes(c2, c)})

\* The statistic of block b (1 mean, 2 std, 3 max, 4 min, 5 t_argmax,
\* 6 t_argmin, 7 slope) of column c over the slice of checkpoint mov_compl.
BlockStatistic(b, m, c, mov_compl) ==
    LET rows == PartialRows(data[m], mov_compl)
        vals == Cells(data[m], c, rows)
        abs_time == Cells(data[m], "abs_time", rows)
    IN CASE b = 1 -> features_mean(vals)
         [] b = 2 -> features_std(vals)
         [] b = 3 -> features_max(vals)
         [] b = 4 -> features_min(vals)
         [] b = 5 -> features_tmax(vals, abs_time)
         [] b = 6 -> features_tmin(vals, abs_time)
         [] b = 7 -> slope_of(vals, abs_time,
                              [all_na_raises |-> FALSE, const_x_raises |-> FALSE]).val

\* C4: a stored vector is frame_count followed by seven blocks of length F in
\* the order mean, std, max, min, t_argmax, t_argmin, slope, and position k of
\* every block is the statistic of the k-th feature column in alphabetical
\* order of column name, at every checkpoint.
C4_BlockLayout ==
    \A key \in DOMAIN partial_data :
        LET m == key[1]
            F == NumFeatures(m)
            vec == partial_data[key]
        IN /\ vec[1] = Num(Len(PartialRows(data[m], key[2])))
           /\ \A b \in 1..7 : \A c \in FeatureColumns(m) :
                 vec[1 + (b - 1) * F + Rank(m, c)]
                    = nan_to_num(BlockStatistic(b, m, c, key[2]))

\* C4 witness: a stored vector over two feature columns whose seven statistics
\* are not all alike: the two columns differ in mean, and one has max # min
\* and t_argmax # t_argmin.
C4_Witness ==
    \E key \in DOMAIN partial_data :
        LET vec == partial_data[key]
        IN /\ NumFeatures(key[1]) = 2
           /\ vec[2] # vec[3]
           /\ vec[6] # vec[8]
           /\ vec[10] # vec[12]

\* The (abs_time, value) pairs of the slice whose value in column c is not
\* NaN, in row order.
ValidPairs(m, c, mov_compl) ==
    LET rows == SelectSeq(PartialRows(data[m], mov_compl),
                          LAMBDA i : data[m][c][i] # NaN)
    IN [j \in 1..Len(rows) |-> <<data[m]["abs_time"][rows[j]], data[m][c][rows[j]]>>]

\* e is the least-squares slope of the pairs ps: with T and V the sums of the
\* times and values, n the number of pairs, e = v/d solves the normal equation
\* e * sum (n t - T)^2 = sum (n t - T)(n f - V), which has one solution.
IsLeastSquaresSlope(e, ps) ==
    LET n == Len(ps)
        T == SumSeq([j \in 1..n |-> ps[j][1].v])
        V == SumSeq([j \in 1..n |-> ps[j][2].v])
        Sxx == SumSeq([j \in 1..n |-> (n * ps[j][1].v - T) * (n * ps[j][1].v - T)])
        Sxy == SumSeq([j \in 1..n |-> (n * ps[j][1].v - T) * (n * ps[j][2].v - V)])
    IN /\ \A j \in 1..n : ps[j][2].k = "num"
       /\ Sxx # 0
       /\ e.k = "frac" /\ e.d # 0
       /\ e.v * Sxx = e.d * Sxy

SlopeEntry(key, c) ==
    partial_data[key][1 + 6 * NumFeatures(key[1]) + Rank(key[1], c)]

\* C5 as stated: with fewer than 2 non-NaN cells of a column in the slice the
\* slope entry is exactly 0 and no regression is computed; with at least 2 it
\* is the least-squares slope over exactly the (abs_time, value) pairs whose
\* value is non-NaN.
C5_SlopeIsLeastSquares ==
    \A key \in DOMAIN partial_data : \A c \in FeatureColumns(key[1]) :
        LET ps == ValidPairs(key[1], c, key[2])
        IN IF Len(ps) < 2 THEN SlopeEntry(key, c) = Num(0)
           ELSE IsLeastSquaresSlope(SlopeEntry(key, c), ps)

\* The regression over the pairs is degenerate: a value is infinite, or all
\* the abs_time values are one value.
Degenerate(ps) ==
    \/ \E j \in 1..Len(ps) : ps[j][2].k # "num"
    \/ \A i, j \in 1..Len(ps) : ps[i][1] = ps[j][1]

\* C5 amended: with fewer than 2 non-NaN cells the slope entry is exactly 0
\* and no regression is computed; with at least 2, all finite and not all at
\* one abs_time, it is the least-squares slope over exactly the non-NaN pairs;
\* with at least 2 that are degenerate (an infinite value, or one abs_time for
\* all) the entry of a stored vector is 0, and the call may instead have
\* raised ValueError.
C5_SlopeIsLeastSquaresUnlessDegenerate ==
    /\ \A key \in DOMAIN partial_data : \A c \in FeatureColumns(key[1]) :
          LET ps == ValidPairs(key[1], c, key[2])
          IN IF Len(ps) < 2 \/ Degenerate(ps) THEN SlopeEntry(key, c) = Num(0)
             ELSE IsLeastSquaresSlope(SlopeEntry(key, c), ps)
    /\ pc = "feature_statistics_extraction raised" =>
          LET m == MovNames[k_mov]
              mov_compl == Checkpoints[k_compl]
          IN \/ \E c \in FeatureColumns(m) : ValidPairs(m, c, mov_compl) = <<>>
             \/ \E c \in FeatureColumns(m) :
                   LET ps == ValidPairs(m, c, mov_compl)
                   IN Len(ps) >= 2 /\ \A i, j \in 1..Len(ps) : ps[i][1] = ps[j][1]

\* C5 witness: stored vectors with a column of exactly one non-NaN cell in
\* the slice (slope 0 by policy) and with a column that has a NaN cell and at
\* least 2 non-NaN cells at distinct times in the slice, fitted to a slope # 0.
C5_Witness ==
    /\ \E key \in DOMAIN partial_data : \E c \in FeatureColumns(key[1]) :
          /\ Len(ValidPairs(key[1], c, key[2])) = 1
          /\ Len(PartialRows(data[key[1]], key[2])) > 1
    /\ \E key \in DOMAIN partial_data : \E c \in FeatureColumns(key[1]) :
          /\ Len(ValidPairs(key[1], c, key[2])) >= 2
          /\ ~Degenerate(ValidPairs(key[1], c, key[2]))
          /\ Len(ValidPairs(key[1], c, key[2])) < Len(PartialRows(data[key[1]], key[2]))
          /\ SlopeEntry(key, c).k = "frac" /\ SlopeEntry(key, c).v # 0

\* C6 as stated: for every feature-engineered movement the checkpoint-100
\* slice holds every row of the feature table, and the frame_count stored
\* under (movement, 100) is the table's row count.
C6_Checkpoint100IsWholeTable ==
    \A m \in MovSet :
        Engineered(m)
        => /\ Len(PartialRows(data[m], 100)) = Len(data[m]["abs_time"])
           /\ <<m, 100>> \in DOMAIN partial_data
                 => partial_data[<<m, 100>>][1] = Num(Len(data[m]["abs_time"]))

\* A raw table the functions can process: every column, and an analysis window.
WellFormed(t) == DOMAIN t = AllColumns /\ Rows(t) > WINDOW

\* C7 as stated: when a movement of the collection is malformed (a column
\* missing, no analysis-window rows), feature_engineering still replaces the
\* table of every other movement and feature_statistics_extraction still
\* returns the five vectors of every other movement.
C7_FailureIsLocal ==
    (Terminated /\ \E bad \in MovSet : ~WellFormed(raw_data[bad]))
    => \A m \in MovSet :
          WellFormed(raw_data[m])
          => /\ Engineered(m)
             /\ \A i \in 1..Len(Checkpoints) : <<m, Checkpoints[i]>> \in DOMAIN partial_data

\* C8 as stated: on a checkpoint slice of 0 rows feature_statistics_extraction
\* does not fail, and stores a vector of length 1 + 7*F whose frame_count and
\* every statistic are 0.
C8_EmptySliceGivesZeros ==
    /\ pc = "feature_statistics_extraction raised"
          => Len(PartialRows(data[MovNames[k_mov]], Checkpoints[k_compl])) # 0
    /\ \A key \in DOMAIN partial_data :
          Len(PartialRows(data[key[1]], key[2])) = 0
          => partial_data[key] = [j \in 1..(1 + 7 * NumFeatures(key[1])) |-> Num(0)]

====
